---------------------------- MODULE Spec2Model ----------------------------
(***************************************************************************)
(* A model of core/lib/lantern/base-node.js: the BaseNode dependency graph *)
(* (edge management, root resolution, BFS traversal, DFS cycle detection   *)
(* and subgraph cloning).                                                  *)
(*                                                                         *)
(* A node is identified by its id; ids are unique within a graph, so node  *)
(* identity (===) and id equality coincide on the original graph.  The     *)
(* JavaScript arrays _dependencies and _dependents are sequences; array    *)
(* indices in the helpers below are the 0-based JavaScript indices.        *)
(***************************************************************************)
EXTENDS Integers, Sequences, FiniteSets, TLC

\* Number of node objects that have been constructed.
NumNodes == 4

\* Largest number of dependency edges that the callers build.
MaxEdges == 5

\* Largest number of edges of the graphs on which edges are also removed.
MaxChurnEdges == 3

Nodes == 1..NumNodes

VARIABLES
  dependencies,    \* dependencies[n]: the array n._dependencies
  dependents,      \* dependents[n]: the array n._dependents
  isMainDocument,  \* isMainDocument[n]: the flag n._isMainDocument
  result           \* the last call made, the branch it took and what it returned

vars == <<dependencies, dependents, isMainDocument, result>>

-----------------------------------------------------------------------------
(* JavaScript array primitives *)

\* Array.prototype.includes
Includes(s, x) == \E i \in 1..Len(s) : s[i] = x

\* Array.prototype.indexOf: the 0-based index of the first occurrence, or -1
IndexOf(s, x) ==
  IF Includes(s, x)
    THEN (CHOOSE i \in 1..Len(s) : s[i] = x /\ \A j \in 1..(i - 1) : s[j] # x) - 1
    ELSE -1

\* Array.prototype.splice(start, 1): a negative start counts from the end
Splice1(s, start) ==
  LET from == IF start < 0
                THEN (IF Len(s) + start < 0 THEN 0 ELSE Len(s) + start)
                ELSE start
  IN IF from >= Len(s)
       THEN s
       ELSE SubSeq(s, 1, from) \o SubSeq(s, from + 2, Len(s))

\* Array.prototype.push
Push(s, x) == Append(s, x)

Range(s) == {s[i] : i \in 1..Len(s)}

-----------------------------------------------------------------------------
(* The graph: the two edge arrays of every node *)

Graph(deps, depts) == [dependencies |-> deps, dependents |-> depts]

\* constructor: both arrays start empty, the flag starts false
EmptyGraph == Graph([n \in Nodes |-> <<>>], [n \in Nodes |-> <<>>])

SelfDependencyError == "Cannot add dependency on itself"
NoError == "none"

\* addDependency without its guard against node === this
addDependency_noSelfCheck(g, this, node) ==
  IF Includes(g.dependencies[this], node)
    THEN [g |-> g, branch |-> "return", error |-> NoError]
    ELSE [g |-> Graph([g.dependencies EXCEPT ![this] = Push(@, node)],
                      [g.dependents EXCEPT ![node] = Push(@, this)]),
          branch |-> "push", error |-> NoError]

\* addDependency without its early return on a dependency already listed
addDependency_noDedup(g, this, node) ==
  IF node = this
    THEN [g |-> g, branch |-> "throw", error |-> SelfDependencyError]
    ELSE [g |-> Graph([g.dependencies EXCEPT ![this] = Push(@, node)],
                      [g.dependents EXCEPT ![node] = Push(@, this)]),
          branch |-> IF Includes(g.dependencies[this], node) THEN "return" ELSE "push",
          error |-> NoError]

\* addDependency that puts node at the front of this._dependencies
addDependency_unshift(g, this, node) ==
  IF node = this
    THEN [g |-> g, branch |-> "throw", error |-> SelfDependencyError]
    ELSE IF Includes(g.dependencies[this], node)
      THEN [g |-> g, branch |-> "return", error |-> NoError]
      ELSE [g |-> Graph([g.dependencies EXCEPT ![this] = <<node>> \o @],
                        [g.dependents EXCEPT ![node] = Push(@, this)]),
            branch |-> "push", error |-> NoError]

\* addDependency: the graph after this.addDependency(node), the branch taken
\* and the error thrown
addDependency(g, this, node) ==
  IF node = this
    THEN [g |-> g, branch |-> "throw", error |-> SelfDependencyError]
    ELSE IF Includes(g.dependencies[this], node)
      THEN [g |-> g, branch |-> "return", error |-> NoError]
      ELSE [g |-> Graph([g.dependencies EXCEPT ![this] = Push(@, node)],
                        [g.dependents EXCEPT ![node] = Push(@, this)]),
            branch |-> "push", error |-> NoError]

\* removeDependency that splices this out of node._dependents at the index
\* node has in this._dependencies
removeDependency_wrongIndex(g, this, node) ==
  IF ~Includes(g.dependencies[this], node)
    THEN [g |-> g, branch |-> "return", error |-> NoError]
    ELSE LET thisIndex == IndexOf(g.dependencies[this], node)
         IN [g |-> Graph([g.dependencies EXCEPT
                            ![this] = Splice1(@, IndexOf(@, node))],
                         [g.dependents EXCEPT
                            ![node] = Splice1(@, thisIndex)]),
             branch |-> "splice", error |-> NoError]

\* removeDependency: the graph after this.removeDependency(node)
removeDependency(g, this, node) ==
  IF ~Includes(g.dependencies[this], node)
    THEN [g |-> g, branch |-> "return", error |-> NoError]
    ELSE LET thisIndex == IndexOf(g.dependents[node], this)
         IN [g |-> Graph([g.dependencies EXCEPT
                            ![this] = Splice1(@, IndexOf(@, node))],
                         [g.dependents EXCEPT
                            ![node] = Splice1(@, thisIndex)]),
             branch |-> "splice", error |-> NoError]

\* removeAllDependencies: removeDependency over a snapshot of the array
RECURSIVE removeEach(_, _, _)
removeEach(g, this, snapshot) ==
  IF snapshot = <<>>
    THEN g
    ELSE removeEach(removeDependency(g, this, Head(snapshot)).g, this, Tail(snapshot))

\* removeAllDependencies iterating this._dependencies itself while
\* removeDependency splices it: the iterator's index skips every other entry
removeAllDependencies_live(g, this) ==
  LET RECURSIVE live(_, _)
      live(h, index) ==
        IF index > Len(h.dependencies[this])
          THEN h
          ELSE live(removeDependency(h, this, h.dependencies[this][index]).g, index + 1)
  IN live(g, 1)

removeAllDependencies(g, this) == removeEach(g, this, g.dependencies[this])

-----------------------------------------------------------------------------
(* State *)

CurrentGraph == Graph(dependencies, dependents)

\* The number of entries of all _dependencies arrays
RECURSIVE EntriesUpTo(_, _)
EntriesUpTo(g, n) ==
  IF n = 0 THEN 0 ELSE Len(g.dependencies[n]) + EntriesUpTo(g, n - 1)

EdgeCount(g) == EntriesUpTo(g, NumNodes)

Init ==
  /\ dependencies = [n \in Nodes |-> <<>>]
  /\ dependents = [n \in Nodes |-> <<>>]
  /\ isMainDocument = [n \in Nodes |-> FALSE]
  /\ result = [op |-> "constructor", branch |-> "return", error |-> NoError]

\* The callers build at most MaxEdges edges.
WithinBounds(g) == EdgeCount(g) <= MaxEdges

SetGraph(g) ==
  /\ dependencies' = g.dependencies
  /\ dependents' = g.dependents

EdgeCall(op, r) ==
  /\ result' = [op |-> op, branch |-> r.branch, error |-> r.error]
  /\ WithinBounds(r.g)
  /\ SetGraph(r.g)
  /\ UNCHANGED isMainDocument

AddDependency(this, node) ==
  EdgeCall("addDependency", addDependency(CurrentGraph, this, node))

\* addDependent delegates to node.addDependency(this)
AddDependent(this, node) ==
  EdgeCall("addDependent", addDependency(CurrentGraph, node, this))

RemoveDependency(this, node) ==
  EdgeCall("removeDependency", removeDependency(CurrentGraph, this, node))

\* removeDependent delegates to node.removeDependency(this)
RemoveDependent(this, node) ==
  EdgeCall("removeDependent", removeDependency(CurrentGraph, node, this))

RemoveAllDependencies(this) ==
  /\ SetGraph(removeAllDependencies(CurrentGraph, this))
  /\ result' = [op |-> "removeAllDependencies", branch |-> "return", error |-> NoError,
                this |-> this, removed |-> Len(dependencies[this])]
  /\ UNCHANGED isMainDocument

EdgeOps ==
  \/ \E this \in Nodes, node \in Nodes : AddDependency(this, node)
  \/ \E this \in Nodes, node \in Nodes : AddDependent(this, node)
  \/ \E this \in Nodes, node \in Nodes : RemoveDependency(this, node)
  \/ \E this \in Nodes, node \in Nodes : RemoveDependent(this, node)
  \/ \E this \in Nodes : RemoveAllDependencies(this)

\* The edge operations alone, additions and removals in any order, on graphs
\* of at most MaxChurnEdges edges
NextEdges ==
  /\ EdgeOps
  /\ EdgeCount(Graph(dependencies', dependents')) <= MaxChurnEdges

SpecEdges == Init /\ [][NextEdges]_vars

-----------------------------------------------------------------------------
(* Cycle detection *)

Min(a, b) == IF a < b THEN a ELSE b

\* The for loop of hasCycle over nodesToExplore: nextNode is pushed onto
\* toVisit, and its depthAdded set, unless toVisit already holds it.
RECURSIVE exploreLoop(_, _, _, _)
exploreLoop(nodesToExplore, toVisit, depthAdded, depth) ==
  IF nodesToExplore = <<>>
    THEN [toVisit |-> toVisit, depthAdded |-> depthAdded]
    ELSE LET nextNode == Head(nodesToExplore)
         IN IF Includes(toVisit, nextNode)
              THEN exploreLoop(Tail(nodesToExplore), toVisit, depthAdded, depth)
              ELSE exploreLoop(Tail(nodesToExplore), Push(toVisit, nextNode),
                               [depthAdded EXCEPT ![nextNode] = depth], depth)

\* A currentPath that is never cut back
backtrack_never(currentPath, depth) == currentPath

\* "while (currentPath.length > depthAdded.get(currentNode)) currentPath.pop()"
backtrack(currentPath, depth) == SubSeq(currentPath, 1, Min(Len(currentPath), depth))

\* The while loop of hasCycle; pushed is the number of currentPath.push calls
\* made so far (a measure of the work done, not a variable of the code).
RECURSIVE visitLoop(_, _, _, _, _, _, _)
visitLoop(g, direction, visited, currentPath, toVisit, depthAdded, pushed) ==
  IF toVisit = <<>>
    THEN [ret |-> FALSE, pushed |-> pushed]
    ELSE LET currentNode == toVisit[Len(toVisit)]
             popped == SubSeq(toVisit, 1, Len(toVisit) - 1)
         IN IF Includes(currentPath, currentNode)
              THEN [ret |-> TRUE, pushed |-> pushed]
              ELSE IF currentNode \in visited
                THEN visitLoop(g, direction, visited, currentPath, popped,
                               depthAdded, pushed)
                ELSE LET backtracked == backtrack(currentPath, depthAdded[currentNode])
                         path == Push(backtracked, currentNode)
                         nodesToExplore == IF direction = "dependents"
                                             THEN g.dependents[currentNode]
                                             ELSE g.dependencies[currentNode]
                         explored == exploreLoop(nodesToExplore, popped, depthAdded,
                                                 Len(path))
                     IN visitLoop(g, direction, visited \cup {currentNode}, path,
                                  explored.toVisit, explored.depthAdded, pushed + 1)

\* hasCycle for one direction ('dependents' or 'dependencies')
hasCycleOneWay(g, node, direction) ==
  visitLoop(g, direction, {}, <<>>, <<node>>, [n \in Nodes |-> 0], 0)

\* static hasCycle(node, direction = 'both')
hasCycle(g, node, direction) ==
  IF direction = "both"
    THEN hasCycleOneWay(g, node, "dependents").ret
           \/ hasCycleOneWay(g, node, "dependencies").ret
    ELSE hasCycleOneWay(g, node, direction).ret

Directions == {"dependents", "dependencies", "both"}

\* The last call was an edge operation (or none was made yet).  The queries
\* below read the graph and change nothing, so a query made right after
\* another query reaches no state that the same query made right after the
\* wiring does not reach; each query is modelled as made on the graph as the
\* wiring calls left it.
Wired ==
  result.op \in {"constructor", "addDependency", "addDependent", "removeDependency",
                 "removeDependent", "removeAllDependencies", "setIsMainDocument"}

HasCycle(node, direction) ==
  /\ Wired
  /\ result' = [op |-> "hasCycle", node |-> node, direction |-> direction,
                ret |-> hasCycle(CurrentGraph, node, direction)]
  /\ UNCHANGED <<dependencies, dependents, isMainDocument>>

\* Callers wire a graph with addDependency and then ask for cycles.
NextCycle ==
  \/ \E this \in Nodes, node \in Nodes : AddDependency(this, node)
  \/ \E node \in Nodes, direction \in Directions : HasCycle(node, direction)

SpecCycle == Init /\ [][NextCycle]_vars

-----------------------------------------------------------------------------
(* Cycle detection, one iteration of the while loop at a time *)

\* The locals of one search (lines 315-319); pushed lists the nodes pushed
\* onto currentPath so far (a history, not a variable of the code), pc is
\* "while" until the search returns ret.
search(node) ==
  [visited |-> {}, currentPath |-> <<>>, toVisit |-> <<node>>,
   depthAdded |-> [n \in Nodes |-> 0], pushed |-> <<>>, pc |-> "while", ret |-> FALSE]

\* One iteration without "if (visited.has(currentNode)) continue"
visitStep_revisits(g, direction, s) ==
  LET currentNode == s.toVisit[Len(s.toVisit)]
      popped == SubSeq(s.toVisit, 1, Len(s.toVisit) - 1)
  IN IF Includes(s.currentPath, currentNode)
       THEN [s EXCEPT !.toVisit = popped, !.pc = "return", !.ret = TRUE]
       ELSE LET path == Push(backtrack(s.currentPath, s.depthAdded[currentNode]),
                             currentNode)
                nodesToExplore == IF direction = "dependents"
                                    THEN g.dependents[currentNode]
                                    ELSE g.dependencies[currentNode]
                explored == exploreLoop(nodesToExplore, popped, s.depthAdded, Len(path))
            IN [s EXCEPT !.visited = @ \cup {currentNode},
                         !.currentPath = path,
                         !.toVisit = explored.toVisit,
                         !.depthAdded = explored.depthAdded,
                         !.pushed = Push(@, currentNode)]

\* One iteration of the while loop (lines 322-350), toVisit not empty
visitStep(g, direction, s) ==
  LET currentNode == s.toVisit[Len(s.toVisit)]
      popped == SubSeq(s.toVisit, 1, Len(s.toVisit) - 1)
  IN IF Includes(s.currentPath, currentNode)
       THEN [s EXCEPT !.toVisit = popped, !.pc = "return", !.ret = TRUE]
       ELSE IF currentNode \in s.visited
         THEN [s EXCEPT !.toVisit = popped]
         ELSE LET path == Push(backtrack(s.currentPath, s.depthAdded[currentNode]),
                               currentNode)
                  nodesToExplore == IF direction = "dependents"
                                      THEN g.dependents[currentNode]
                                      ELSE g.dependencies[currentNode]
                  explored == exploreLoop(nodesToExplore, popped, s.depthAdded, Len(path))
              IN [s EXCEPT !.visited = @ \cup {currentNode},
                           !.currentPath = path,
                           !.toVisit = explored.toVisit,
                           !.depthAdded = explored.depthAdded,
                           !.pushed = Push(@, currentNode)]

\* The call: result.searching is the direction of the search under way
\* ('both' begins with 'dependents').
HasCycleCall(node, direction) ==
  /\ Wired
  /\ result' = [op |-> "hasCycle", node |-> node, direction |-> direction,
                searching |-> IF direction = "both" THEN "dependents" ELSE direction]
                 @@ search(node)
  /\ UNCHANGED <<dependencies, dependents, isMainDocument>>

Searching == result.op = "hasCycle" /\ result.pc = "while"
Returned == result.op = "hasCycle" /\ result.pc = "return"

\* The while loop's test and one iteration; when the loop ends, "return
\* false", after which 'both' goes on to search the dependencies (the right
\* operand of ||, line 312).
HasCycleStep ==
  /\ Searching
  /\ result' =
       IF result.toVisit # <<>>
         THEN [op |-> "hasCycle", node |-> result.node, direction |-> result.direction,
               searching |-> result.searching]
                @@ visitStep(CurrentGraph, result.searching, result)
         ELSE IF result.direction = "both" /\ result.searching = "dependents"
           THEN [op |-> "hasCycle", node |-> result.node, direction |-> "both",
                 searching |-> "dependencies"] @@ search(result.node)
           ELSE [result EXCEPT !.pc = "return", !.ret = FALSE]
  /\ UNCHANGED <<dependencies, dependents, isMainDocument>>

\* Callers wire a graph and ask for cycles; a search runs to its return
\* before the next call is made.
NextSearch ==
  \/ \E this \in Nodes, node \in Nodes : Wired /\ AddDependency(this, node)
  \/ \E node \in Nodes, direction \in Directions : HasCycleCall(node, direction)
  \/ HasCycleStep

SpecSearch == Init /\ [][NextSearch]_vars /\ WF_vars(HasCycleStep)

-----------------------------------------------------------------------------
(* Root resolution *)

\* The loop as an if: one step toward the root
rootLoop_oneStep(g, rootNode, seen) ==
  IF Len(g.dependencies[rootNode]) = 0
    THEN [diverges |-> FALSE, ret |-> rootNode]
    ELSE [diverges |-> FALSE, ret |-> g.dependencies[rootNode][1]]

\* The while loop of getRootNode.  The loop has no state but rootNode, so
\* reaching a node a second time means it never ends.
RECURSIVE rootLoop(_, _, _)
rootLoop(g, rootNode, seen) ==
  IF Len(g.dependencies[rootNode]) = 0
    THEN [diverges |-> FALSE, ret |-> rootNode]
    ELSE IF rootNode \in seen
      THEN [diverges |-> TRUE, ret |-> rootNode]
      ELSE rootLoop(g, g.dependencies[rootNode][1], seen \cup {rootNode})

\* getRootNode following the last-listed dependency
getRootNode_lastDependency(g, this) ==
  LET RECURSIVE last(_, _)
      last(rootNode, seen) ==
        IF Len(g.dependencies[rootNode]) = 0
          THEN [diverges |-> FALSE, ret |-> rootNode]
          ELSE IF rootNode \in seen
            THEN [diverges |-> TRUE, ret |-> rootNode]
            ELSE last(g.dependencies[rootNode][Len(g.dependencies[rootNode])],
                      seen \cup {rootNode})
  IN last(this, {})

getRootNode(g, this) == rootLoop(g, this, {})

-----------------------------------------------------------------------------
(* Traversal engine *)

\* Object references. The nodes the callers constructed are named by their
\* ids; NewNode(id) is the reference "new BaseNode(id)" returns when
\* cloneWithoutRelationships constructs a node, an object none of the
\* callers' nodes is.
NewNode(nodeId) == nodeId + NumNodes
Objects == Nodes \cup {NewNode(n) : n \in Nodes}

\* id getter
id(node) == IF node \in Nodes THEN node ELSE node - NumNodes

\* getDependents / getDependencies: a copy of the array
getDependents(g, node) == g.dependents[node]
getDependencies(g, node) == g.dependencies[node]

\* The two functions a caller hands to traverse are closures over the
\* caller's variables.  A closure pair is a record: kind names the call site
\* that wrote the two functions, the other fields are the values they
\* captured, and st, threaded through the traversal, is the caller's state
\* they read and write (st.error is the error callback threw, if any).
\*   "yield"           traverseGenerator(getNextNodes) consumed as a list
\*   "isDependentOn"   the closures of isDependentOn (lines 184-192)
\*   "include"         the first traversal of cloneWithRelationships (221-238)
\*   "cloneAncestors"  the traversal nested in it (232-236)
\*   "copy"            the second traversal of cloneWithRelationships (241-250)
RECURSIVE traverse(_, _, _, _)

\* The expansion functions the callers pass: none (the default, dependents),
\* or node => node.getDependencies()
Expansions == {"dependents", "dependencies"}

expand(g, expansion, node) ==
  IF expansion = "dependents" THEN getDependents(g, node) ELSE getDependencies(g, node)

-----------------------------------------------------------------------------
(* Subgraph cloning: the callbacks *)

CloneConsistencyError == "Dependency somehow not cloned"
CloneResultMissingError == "Cloned graph missing node"

\* The predicate argument: undefined, or a function accepting a set of nodes
Undefined == [defined |-> FALSE, accepts |-> {}]
Predicates == {Undefined} \cup {[defined |-> TRUE, accepts |-> S] : S \in SUBSET Nodes}

\* The heap a clone call works on: st.g holds the _dependencies and
\* _dependents arrays of every object, st.flags every _isMainDocument,
\* st.clones is the key set of the map idsToIncludedClones (the value stored
\* under id is NewNode(id)) and st.error the error thrown, if any.
heap(g, flags) ==
  [clones |-> {},
   flags |-> [o \in Objects |-> IF o \in Nodes THEN flags[o] ELSE FALSE],
   g |-> Graph([o \in Objects |-> IF o \in Nodes THEN g.dependencies[o] ELSE <<>>],
               [o \in Objects |-> IF o \in Nodes THEN g.dependents[o] ELSE <<>>]),
   error |-> NoError]

\* new BaseNode(id): empty arrays, _isMainDocument false
constructor(st, node) ==
  [st EXCEPT !.flags = [@ EXCEPT ![node] = FALSE],
             !.g = Graph([@.dependencies EXCEPT ![node] = <<>>],
                         [@.dependents EXCEPT ![node] = <<>>])]

setIsMainDocument(st, node, value) ==
  [st EXCEPT !.flags = [@ EXCEPT ![node] = value]]

\* cloneWithoutRelationships that leaves the flag of the new node as the
\* constructor set it
cloneWithoutRelationships_noFlag(st, this) ==
  [st |-> constructor(st, NewNode(id(this))), ret |-> NewNode(id(this))]

\* cloneWithoutRelationships: the heap afterwards and the node returned
cloneWithoutRelationships(st, this) ==
  LET node == NewNode(id(this))
  IN [st |-> setIsMainDocument(constructor(st, node), node, st.flags[this]),
      ret |-> node]

\* idsToIncludedClones.set(node.id, node.cloneWithoutRelationships())
setClone(st, node) ==
  [cloneWithoutRelationships(st, node).st EXCEPT !.clones = @ \cup {id(node)}]

\* idsToIncludedClones.get(id), for an id the map has
get(st, nodeId) == NewNode(nodeId)

\* The callback returning early as soon as the map holds any clone
includeNode_onlyFirst(predicate, st, node) ==
  IF st.clones # {}
    THEN st
    ELSE IF ~predicate.defined
      THEN setClone(st, node)
      ELSE IF node \in predicate.accepts
        THEN traverse(st.g, [kind |-> "cloneAncestors"], node, st)
        ELSE st

\* The callback of the first traversal ("Walk down dependents")
includeNode(predicate, st, node) ==
  IF id(node) \in st.clones
    THEN st
    ELSE IF ~predicate.defined
      THEN setClone(st, node)
      ELSE IF node \in predicate.accepts
        THEN traverse(st.g, [kind |-> "cloneAncestors"], node, st)
        ELSE st

\* The filter keeping the parents the map has
uncloned_inverted(st, node) ==
  SelectSeq(st.g.dependencies[node], LAMBDA parent : id(parent) \in st.clones)

\* getNextNodes of the nested traversal:
\* node._dependencies.filter(parent => !idsToIncludedClones.has(parent.id))
uncloned(st, node) ==
  SelectSeq(st.g.dependencies[node], LAMBDA parent : id(parent) \notin st.clones)

\* The for loop calling clonedDependency.addDependency(clonedNode)
RECURSIVE copyLoop_reversed(_, _, _)
copyLoop_reversed(st, originalNode, index) ==
  IF index > Len(st.g.dependencies[originalNode])
    THEN st
    ELSE LET dependency == st.g.dependencies[originalNode][index]
         IN IF id(dependency) \notin st.clones
              THEN [st EXCEPT !.error = CloneConsistencyError]
              ELSE LET added == addDependency(st.g, get(st, id(dependency)),
                                              get(st, id(originalNode)))
                   IN IF added.error # NoError
                        THEN [st EXCEPT !.error = added.error]
                        ELSE copyLoop_reversed([st EXCEPT !.g = added.g],
                                               originalNode, index + 1)

\* The for loop calling clonedNode.addDependency(dependency)
RECURSIVE copyLoop_original(_, _, _)
copyLoop_original(st, originalNode, index) ==
  IF index > Len(st.g.dependencies[originalNode])
    THEN st
    ELSE LET dependency == st.g.dependencies[originalNode][index]
         IN IF id(dependency) \notin st.clones
              THEN [st EXCEPT !.error = CloneConsistencyError]
              ELSE LET added == addDependency(st.g, get(st, id(originalNode)), dependency)
                   IN IF added.error # NoError
                        THEN [st EXCEPT !.error = added.error]
                        ELSE copyLoop_original([st EXCEPT !.g = added.g],
                                               originalNode, index + 1)

\* The for loop of the second traversal's callback over
\* originalNode._dependencies, index being the iterator's position
RECURSIVE copyLoop(_, _, _)
copyLoop(st, originalNode, index) ==
  IF index > Len(st.g.dependencies[originalNode])
    THEN st
    ELSE LET dependency == st.g.dependencies[originalNode][index]
         IN IF id(dependency) \notin st.clones
              THEN [st EXCEPT !.error = CloneConsistencyError]
              ELSE LET clonedNode == get(st, id(originalNode))
                       clonedDependency == get(st, id(dependency))
                       added == addDependency(st.g, clonedNode, clonedDependency)
                   IN IF added.error # NoError
                        THEN [st EXCEPT !.error = added.error]
                        ELSE copyLoop([st EXCEPT !.g = added.g], originalNode, index + 1)

\* The callback of the second traversal ("Copy dependencies between nodes")
copyDependencies(st, originalNode) ==
  IF id(originalNode) \notin st.clones
    THEN st
    ELSE copyLoop(st, originalNode, 1)

-----------------------------------------------------------------------------
(* Traversal engine: the loop *)

\* callback(node, traversalPath), as each call site wrote it
callback(g, closure, st, node, traversalPath) ==
  CASE closure.kind = "yield" ->
         [st EXCEPT !.yielded = Push(@, [node |-> node,
                                        traversalPath |-> traversalPath])]
    [] closure.kind = "isDependentOn" ->
         IF st.isDependentOnNode
           THEN st
           ELSE [st EXCEPT !.isDependentOnNode = (node = closure.node)]
    [] closure.kind = "include" ->
         includeNode(closure.predicate, st, node)
    [] closure.kind = "cloneAncestors" -> setClone(st, node)
    [] closure.kind = "copy" -> copyDependencies(st, node)

\* getNextNodes(node), as each call site wrote it (the default: dependents)
getNextNodes(g, closure, st, node) ==
  CASE closure.kind = "yield" -> expand(g, closure.expansion, node)
    [] closure.kind = "isDependentOn" ->
         IF st.isDependentOnNode THEN <<>> ELSE getDependencies(g, node)
    [] closure.kind = "include" -> getDependents(st.g, node)
    [] closure.kind = "cloneAncestors" -> uncloned(st, node)
    [] closure.kind = "copy" -> getDependents(st.g, node)

\* The for loop with break in the place of continue
RECURSIVE enqueueLoop_break(_, _, _, _)
enqueueLoop_break(nextNodes, queue, visited, traversalPath) ==
  IF nextNodes = <<>>
    THEN [queue |-> queue, visited |-> visited]
    ELSE LET nextNode == Head(nextNodes)
         IN IF id(nextNode) \in visited
              THEN [queue |-> queue, visited |-> visited]
              ELSE enqueueLoop_break(Tail(nextNodes),
                                     Push(queue, <<nextNode>> \o traversalPath),
                                     visited \cup {id(nextNode)}, traversalPath)

\* The for loop pushing [nextNode, ...rest of traversalPath], without the
\* node that was just visited
RECURSIVE enqueueLoop_dropsVisited(_, _, _, _)
enqueueLoop_dropsVisited(nextNodes, queue, visited, traversalPath) ==
  IF nextNodes = <<>>
    THEN [queue |-> queue, visited |-> visited]
    ELSE LET nextNode == Head(nextNodes)
         IN IF id(nextNode) \in visited
              THEN enqueueLoop_dropsVisited(Tail(nextNodes), queue, visited, traversalPath)
              ELSE enqueueLoop_dropsVisited(Tail(nextNodes),
                               Push(queue, <<nextNode>> \o Tail(traversalPath)),
                               visited \cup {id(nextNode)}, traversalPath)

\* The for loop of traverseGenerator over getNextNodes(node)
RECURSIVE enqueueLoop(_, _, _, _)
enqueueLoop(nextNodes, queue, visited, traversalPath) ==
  IF nextNodes = <<>>
    THEN [queue |-> queue, visited |-> visited]
    ELSE LET nextNode == Head(nextNodes)
         IN IF id(nextNode) \in visited
              THEN enqueueLoop(Tail(nextNodes), queue, visited, traversalPath)
              ELSE enqueueLoop(Tail(nextNodes),
                               Push(queue, <<nextNode>> \o traversalPath),
                               visited \cup {id(nextNode)}, traversalPath)

\* The while loop of traverseGenerator with the for loop of traverse around
\* it: callback runs at each yield, before getNextNodes is asked for the
\* node's successors; an error thrown by callback ends the traversal.
RECURSIVE whileLoop(_, _, _, _, _)
whileLoop(g, closure, queue, visited, st) ==
  IF queue = <<>>
    THEN st
    ELSE LET traversalPath == Head(queue)
             node == traversalPath[1]
             called == callback(g, closure, st, node, traversalPath)
         IN IF called.error # NoError
              THEN called
              ELSE LET enqueued == enqueueLoop(getNextNodes(g, closure, called, node),
                                               Tail(queue), visited, traversalPath)
                   IN whileLoop(g, closure, enqueued.queue, enqueued.visited, called)

\* this.traverse(callback, getNextNodes): the caller's state when it returns
traverse(g, closure, this, initial) ==
  whileLoop(g, closure, <<<<this>>>>, {id(this)}, initial)

\* traverseGenerator: the sequence of {node, traversalPath} it yields
traverseGenerator(g, this, expansion) ==
  traverse(g, [kind |-> "yield", expansion |-> expansion], this,
           [yielded |-> <<>>, error |-> NoError]).yielded

\* isDependentOn walking the dependents of this node
isDependentOn_dependents(g, this, node) ==
  \E i \in 1..Len(traverseGenerator(g, this, "dependents")) :
    traverseGenerator(g, this, "dependents")[i].node = node

\* isDependentOn: the flag the two closures share is st.isDependentOnNode
isDependentOn(g, this, node) ==
  traverse(g, [kind |-> "isDependentOn", node |-> node], this,
           [isDependentOnNode |-> FALSE, error |-> NoError]).isDependentOnNode

-----------------------------------------------------------------------------
(* Subgraph cloning *)

\* new Map(): no clone yet
NoClones ==
  [clones |-> {}, flags |-> [n \in Nodes |-> FALSE], g |-> EmptyGraph, error |-> NoError]

\* The lookup without the check of what it found
lookupClone_unchecked(st, this) == NoError

\* "const clonedThisNode = idsToIncludedClones.get(this.id);
\*  if (!clonedThisNode) throw new Error('Cloned graph missing node')"
lookupClone(st, this) ==
  IF id(this) \notin st.clones THEN CloneResultMissingError ELSE NoError

\* The clones as the map names them, by id: the arrays of the clone of each
\* id, its nodes named by their ids
cloneGraph(st) ==
  Graph([n \in Nodes |-> [i \in 1..Len(st.g.dependencies[get(st, n)]) |->
                            id(st.g.dependencies[get(st, n)][i])]],
        [n \in Nodes |-> [i \in 1..Len(st.g.dependents[get(st, n)]) |->
                            id(st.g.dependents[get(st, n)][i])]])

\* cloneWithRelationships: outcome is "return", "throw" or, when getRootNode
\* never returns, "diverges"; ret is the id of the clone returned and node the
\* clone; clones, flags and g are the map and its clones by id, heap every
\* object when the call ends
cloneWithRelationships(g, flags, this, predicate) ==
  LET root == getRootNode(g, this)
  IN IF root.diverges
       THEN [outcome |-> "diverges", error |-> NoError, clones |-> {},
             flags |-> NoClones.flags, g |-> EmptyGraph, ret |-> 0, node |-> 0,
             heap |-> heap(g, flags)]
       ELSE LET rootNode == root.ret
                included == traverse(g, [kind |-> "include", predicate |-> predicate],
                                     rootNode, heap(g, flags))
                copied == traverse(g, [kind |-> "copy"], rootNode, included)
                thrown == IF copied.error # NoError
                            THEN copied.error
                            ELSE lookupClone(copied, this)
            IN [outcome |-> IF thrown = NoError THEN "return" ELSE "throw",
                error |-> thrown, clones |-> copied.clones,
                flags |-> [n \in Nodes |-> copied.flags[get(copied, n)]],
                g |-> cloneGraph(copied),
                ret |-> IF thrown = NoError THEN id(this) ELSE 0,
                node |-> IF thrown = NoError THEN get(copied, id(this)) ELSE 0,
                heap |-> copied]

-----------------------------------------------------------------------------
(* Queries as calls, and the callers that make them *)

GetRootNode(this) ==
  /\ Wired
  /\ result' = [op |-> "getRootNode", this |-> this] @@ getRootNode(CurrentGraph, this)
  /\ UNCHANGED <<dependencies, dependents, isMainDocument>>

Traverse(this, expansion) ==
  /\ Wired
  /\ result' = [op |-> "traverse", this |-> this, expansion |-> expansion,
                yielded |-> traverseGenerator(CurrentGraph, this, expansion)]
  /\ UNCHANGED <<dependencies, dependents, isMainDocument>>

CloneWithRelationships(this, predicate) ==
  /\ Wired
  /\ result' = [op |-> "cloneWithRelationships", this |-> this, predicate |-> predicate]
                 @@ cloneWithRelationships(CurrentGraph, isMainDocument, this, predicate)
  /\ UNCHANGED <<dependencies, dependents, isMainDocument>>

IsDependentOn(this, node) ==
  /\ Wired
  /\ result' = [op |-> "isDependentOn", this |-> this, node |-> node,
                ret |-> isDependentOn(CurrentGraph, this, node)]
  /\ UNCHANGED <<dependencies, dependents, isMainDocument>>

SetIsMainDocument(this, value) ==
  /\ isMainDocument' = [isMainDocument EXCEPT ![this] = value]
  /\ result' = [op |-> "setIsMainDocument", this |-> this, value |-> value]
  /\ UNCHANGED <<dependencies, dependents>>

\* The call works on the heap of the callers' nodes; result.heap is every
\* object when it returns.
CloneWithoutRelationships(this) ==
  /\ Wired
  /\ LET cloned == cloneWithoutRelationships(heap(CurrentGraph, isMainDocument), this)
     IN result' = [op |-> "cloneWithoutRelationships", this |-> this,
                   ret |-> cloned.ret, heap |-> cloned.st]
  /\ UNCHANGED <<dependencies, dependents, isMainDocument>>

\* Callers wire any graph, flag main documents and clone single nodes.
NextFlags ==
  /\ \/ \E this \in Nodes, node \in Nodes : AddDependency(this, node)
     \/ \E this \in Nodes, value \in BOOLEAN : SetIsMainDocument(this, value)
     \/ \E this \in Nodes : CloneWithoutRelationships(this)
  /\ EdgeCount(Graph(dependencies', dependents')) <= MaxChurnEdges

SpecFlags == Init /\ [][NextFlags]_vars

\* Callers wire any graph, cycles included, flag at most one node as the
\* main document and clone.
NextCloneFlags ==
  \/ /\ Wired
     /\ \/ \E this \in Nodes, node \in Nodes : AddDependency(this, node)
        \/ \E this \in Nodes, value \in BOOLEAN :
             /\ \A n \in Nodes \ {this} : ~isMainDocument[n]
             /\ SetIsMainDocument(this, value)
     /\ EdgeCount(Graph(dependencies', dependents')) <= MaxChurnEdges
  \/ \E this \in Nodes, predicate \in Predicates : CloneWithRelationships(this, predicate)

SpecCloneFlags == Init /\ [][NextCloneFlags]_vars

\* Callers wire any graph and ask whether one node depends on another.
NextDependsOn ==
  \/ \E this \in Nodes, node \in Nodes : AddDependency(this, node)
  \/ \E this \in Nodes, node \in Nodes : IsDependentOn(this, node)

SpecDependsOn == Init /\ [][NextDependsOn]_vars

\* Callers wire any graph and traverse it.
NextTraverse ==
  \/ \E this \in Nodes, node \in Nodes : AddDependency(this, node)
  \/ \E this \in Nodes, expansion \in Expansions : Traverse(this, expansion)

SpecTraverse == Init /\ [][NextTraverse]_vars

\* A disciplined caller keeps the graph a DAG (invariant 1 of the file
\* overview): it adds a dependency only on a node that does not already
\* depend on this one, which isDependentOn tells.  It finishes the wiring
\* before it hands the graph over to be queried.
AddDependencyKeepingDag(this, node) ==
  /\ Wired
  /\ ~isDependentOn(CurrentGraph, node, this)
  /\ AddDependency(this, node)

\* The root of a DAG is asked for.
NextRoot ==
  \/ \E this \in Nodes, node \in Nodes : AddDependencyKeepingDag(this, node)
  \/ \E this \in Nodes : GetRootNode(this)

SpecRoot == Init /\ [][NextRoot]_vars

\* A DAG is cloned.
NextClone ==
  \/ \E this \in Nodes, node \in Nodes : AddDependencyKeepingDag(this, node)
  \/ \E this \in Nodes, predicate \in Predicates : CloneWithRelationships(this, predicate)

SpecClone == Init /\ [][NextClone]_vars

-----------------------------------------------------------------------------
(* Graph-theoretic vocabulary of the properties *)

\* The d-edges leaving n
Edges(g, n, d) ==
  IF d = "dependents"
    THEN Range(g.dependents[n])
    ELSE IF d = "dependencies"
      THEN Range(g.dependencies[n])
      ELSE Range(g.dependents[n]) \cup Range(g.dependencies[n])

\* Nodes reachable from the set S in at most k further d-steps (S included)
RECURSIVE ReachWithin(_, _, _, _)
ReachWithin(g, S, d, k) ==
  IF k = 0
    THEN S
    ELSE ReachWithin(g, S \cup UNION {Edges(g, n, d) : n \in S}, d, k - 1)

\* Nodes reachable from n along d-edges, n included
Reach(g, n, d) == ReachWithin(g, {n}, d, NumNodes)

\* Nodes reachable from n by at least one d-edge
ReachPlus(g, n, d) == ReachWithin(g, Edges(g, n, d), d, NumNodes)

\* m lies on a cycle of d-edges
OnCycle(g, m, d) == m \in ReachPlus(g, m, d)

\* some cycle of d-edges is reachable from n
CycleReachable(g, n, d) == \E m \in Reach(g, n, d) : OnCycle(g, m, d)

Acyclic(g) == \A m \in Nodes : ~OnCycle(g, m, "dependencies")

\* The nodes connected to n by edges taken in either direction
Component(g, n) == Reach(g, n, "either")

\* The nodes of S that have zero dependencies
Roots(g, S) == {n \in S : Len(g.dependencies[n]) = 0}

\* n, two nodes b and c next to it along d, and a node next to both: a diamond
Diamond(g, n, d) ==
  \E b \in Edges(g, n, d), c \in Edges(g, n, d) :
    b # c /\ Edges(g, b, d) \cap Edges(g, c, d) # {}

-----------------------------------------------------------------------------
(* Properties of the edge operations *)

\* C1. Symmetry: after any sequence of edge operations, failed ones and
\* no-ops included, A is in B's dependencies iff B is in A's dependents.
C1_Symmetry ==
  \A a \in Nodes, b \in Nodes :
    Includes(dependencies[b], a) <=> Includes(dependents[a], b)

\* A removal has spliced an edge out and other edges remain.
C1_Witness ==
  /\ result.op = "removeDependent"
  /\ result.branch = "splice"
  /\ \E n \in Nodes : Len(dependencies[n]) >= 2

NoSelfEdges ==
  \A n \in Nodes : ~Includes(dependencies[n], n) /\ ~Includes(dependents[n], n)

\* C9. N.addDependency(N) and N.addDependent(N) throw the self-dependency
\* error and leave every node's dependencies and dependents as they were;
\* no node is ever in its own dependencies or dependents.
C9_SelfDependencyRejected ==
  /\ [][\/ /\ result'.error = SelfDependencyError
            /\ UNCHANGED <<dependencies, dependents>>
         \/ \A n \in Nodes : ~(AddDependency(n, n) \/ AddDependent(n, n))]_vars
  /\ []NoSelfEdges

\* addDependent(self) has thrown on a graph that has edges.
C9_Witness ==
  /\ result.op = "addDependent"
  /\ result.error = SelfDependencyError
  /\ EdgeCount(CurrentGraph) >= 2

NoDuplicates ==
  \A n \in Nodes :
    /\ \A i, j \in 1..Len(dependencies[n]) :
         dependencies[n][i] = dependencies[n][j] => i = j
    /\ \A i, j \in 1..Len(dependents[n]) :
         dependents[n][i] = dependents[n][j] => i = j

\* C10. Y.addDependency(X) with X already a dependency of Y, and
\* Y.removeDependency(X) with X no dependency of Y, change nothing; no
\* dependencies or dependents list ever holds the same node twice.
C10_Idempotent ==
  /\ [][\/ UNCHANGED <<dependencies, dependents>>
         \/ \A y \in Nodes, x \in Nodes :
              /\ ~(Includes(dependencies[y], x) /\ AddDependency(y, x))
              /\ ~(~Includes(dependencies[y], x) /\ RemoveDependency(y, x))]_vars
  /\ []NoDuplicates

\* addDependency has returned early on a dependency that was already listed.
C10_Witness ==
  /\ result.op = "addDependency"
  /\ result.branch = "return"
  /\ EdgeCount(CurrentGraph) >= 1

-----------------------------------------------------------------------------
(* Properties of cycle detection *)

\* C2. If some cycle is reachable from n by following d-edges, for d one
\* of dependents and dependencies, then hasCycle(n, d) returns true.
C2_CycleFound ==
  (result.op = "hasCycle" /\ result.direction # "both"
     /\ CycleReachable(CurrentGraph, result.node, result.direction))
  => result.ret

\* C3. hasCycle(n, d) returns true only if a cycle is reachable from n
\* along d-edges; on an acyclic graph it returns false, diamonds included.
C3_OnlyRealCycles ==
  (result.op = "hasCycle" /\ result.direction # "both" /\ result.ret)
  => CycleReachable(CurrentGraph, result.node, result.direction)

\* hasCycle has returned false at the top of a diamond of an acyclic graph.
C3_Witness ==
  /\ result.op = "hasCycle"
  /\ result.direction = "dependencies"
  /\ ~result.ret
  /\ Diamond(CurrentGraph, result.node, "dependencies")
  /\ Acyclic(CurrentGraph)

-----------------------------------------------------------------------------
(* Properties of traversal *)

\* C4. A traversal started at s yields every node reachable from s through
\* the expansion function exactly once, and no other node.
C4_TraverseExactlyOnce ==
  result.op = "traverse" =>
    LET yielded == result.yielded
    IN /\ {yielded[i].node : i \in 1..Len(yielded)}
            = Reach(CurrentGraph, result.this, result.expansion)
       /\ \A i, j \in 1..Len(yielded) : yielded[i].node = yielded[j].node => i = j

\* A traversal has run from the top of a diamond along dependents.
C4_Witness ==
  /\ result.op = "traverse"
  /\ result.expansion = "dependents"
  /\ Diamond(CurrentGraph, result.this, "dependents")
  /\ Len(result.yielded) = NumNodes

-----------------------------------------------------------------------------
(* Properties of root resolution and cloning, on the DAGs of SpecRoot and SpecClone *)

Cloned == result.op = "cloneWithRelationships"

ClonedRoot == getRootNode(CurrentGraph, result.this).ret

\* The nodes the predicate of the call accepts (all of them when it is undefined)
Accepted == IF result.predicate.defined THEN result.predicate.accepts ELSE Nodes

\* C5. When cloneWithRelationships returns on an acyclic graph, every
\* transitive dependency of a node that has a clone has a clone, and every
\* node reachable from the root via dependents that the predicate accepts
\* has a clone.
C5_AncestorClosure ==
  (Cloned /\ result.outcome = "return" /\ Acyclic(CurrentGraph)) =>
    /\ \A n \in result.clones :
         Reach(CurrentGraph, n, "dependencies") \subseteq result.clones
    /\ \A n \in Reach(CurrentGraph, ClonedRoot, "dependents") :
         n \in Accepted => n \in result.clones

\* A clone has returned whose predicate accepts only the bottom of a diamond
\* and whose map holds every node.
C5_Witness ==
  /\ Cloned
  /\ result.outcome = "return"
  /\ result.predicate.defined
  /\ Cardinality(result.predicate.accepts) = 1
  /\ result.clones = Nodes
  /\ \E n \in Nodes : Diamond(CurrentGraph, n, "dependents")

\* Every edge of the clone graph is the copy of an edge of the original.
OnlyCopiedEdges ==
  \A n \in Nodes :
    /\ Range(result.g.dependencies[n]) \subseteq Range(dependencies[n]) \cap result.clones
    /\ Range(result.g.dependents[n]) \subseteq Range(dependents[n]) \cap result.clones
    /\ n \notin result.clones =>
         result.g.dependencies[n] = <<>> /\ result.g.dependents[n] = <<>>

\* C6 as stated. When cloneWithRelationships returns on an acyclic graph,
\* the clone of every node that has one depends on exactly the clones of the
\* node's dependencies, and the clone graph has no other edges.
C6_AllEdgesCopied ==
  (Cloned /\ result.outcome = "return" /\ Acyclic(CurrentGraph)) =>
    /\ \A n \in result.clones :
         Range(result.g.dependencies[n]) = Range(dependencies[n])
    /\ OnlyCopiedEdges

\* C6 amended. When cloneWithRelationships returns on an acyclic graph, the
\* clone of every node that has one and is reachable via dependents from the
\* root of the receiver depends on exactly the clones of the node's
\* dependencies, and the clone graph has no edge that is not the copy of an
\* original edge.
C6_ReachableEdgesCopied ==
  (Cloned /\ result.outcome = "return" /\ Acyclic(CurrentGraph)) =>
    /\ \A n \in result.clones \cap Reach(CurrentGraph, ClonedRoot, "dependents") :
         Range(result.g.dependencies[n]) = Range(dependencies[n])
    /\ OnlyCopiedEdges

\* A clone without predicate has returned on a diamond, all edges copied.
C6_Witness ==
  /\ Cloned
  /\ result.outcome = "return"
  /\ ~result.predicate.defined
  /\ Diamond(CurrentGraph, result.ret, "dependents")
  /\ EdgeCount(result.g) >= 4

\* C7. On an acyclic graph, X.cloneWithRelationships(predicate) with a
\* predicate throws 'Cloned graph missing node' iff the predicate rejects X
\* and every node reachable from X via dependents; otherwise it returns the
\* clone whose id is X's id.
C7_MissingIffAllRejected ==
  (Cloned /\ result.predicate.defined /\ Acyclic(CurrentGraph)) =>
    IF Reach(CurrentGraph, result.this, "dependents") \cap result.predicate.accepts = {}
      THEN result.outcome = "throw" /\ result.error = CloneResultMissingError
      ELSE result.outcome = "return" /\ result.ret = id(result.this)
                                     /\ result.ret \in result.clones

\* The clone has thrown 'Cloned graph missing node' although the predicate
\* accepted a node, and the map held clones.
C7_Witness ==
  /\ Cloned
  /\ result.error = CloneResultMissingError
  /\ result.predicate.accepts # {}
  /\ result.clones # {}
  /\ Len(dependents[result.this]) >= 1

\* C8 as stated. In a connected acyclic graph getRootNode() returns the same
\* node on every node.
C8_RootStable ==
  (result.op = "getRootNode" /\ Acyclic(CurrentGraph)) =>
    \A other \in Component(CurrentGraph, result.this) :
      getRootNode(CurrentGraph, other).ret = result.ret

\* C8 amended. In a connected acyclic graph in which exactly one node has
\* zero dependencies, getRootNode() returns the same node on every node.
C8_SingleRootStable ==
  (result.op = "getRootNode" /\ Acyclic(CurrentGraph)
     /\ Cardinality(Roots(CurrentGraph, Component(CurrentGraph, result.this))) = 1) =>
    \A other \in Component(CurrentGraph, result.this) :
      /\ ~getRootNode(CurrentGraph, other).diverges
      /\ getRootNode(CurrentGraph, other).ret = result.ret

\* getRootNode has returned on the bottom of a diamond that has one root.
C8_Witness ==
  /\ result.op = "getRootNode"
  /\ Diamond(CurrentGraph, result.this, "dependencies")
  /\ Component(CurrentGraph, result.this) = Nodes
  /\ Roots(CurrentGraph, Nodes) = {result.ret}

-----------------------------------------------------------------------------
(* Properties of isDependentOn and of the traversal paths *)

\* C11. A.isDependentOn(N) returns true iff N is A or N is reachable from A
\* by following dependency edges, on cyclic graphs too, and it leaves the
\* graph as it was.
C11_DependsOnIffReachable ==
  /\ [](result.op = "isDependentOn" =>
          (result.ret <=> result.node \in Reach(CurrentGraph, result.this, "dependencies")))
  /\ [][result'.op = "isDependentOn" =>
          UNCHANGED <<dependencies, dependents, isMainDocument>>]_vars

\* isDependentOn has returned true for a node two dependency edges away, on
\* a graph that has a cycle.
C11_Witness ==
  /\ result.op = "isDependentOn"
  /\ result.ret
  /\ result.node # result.this
  /\ ~Includes(dependencies[result.this], result.node)
  /\ ~Acyclic(CurrentGraph)

\* Length of the shortest chain of d-edges from s to n (n reachable from s)
Distance(g, s, n, d) ==
  CHOOSE k \in 0..NumNodes :
    /\ n \in ReachWithin(g, {s}, d, k)
    /\ k = 0 \/ n \notin ReachWithin(g, {s}, d, k - 1)

\* C12. Every (node, traversalPath) a traversal from s yields: the path
\* begins with node and ends with s, each element is among getNextNodes of
\* the element that follows it, and no shorter such chain from s to node
\* exists.
C12_ShortestPath ==
  result.op = "traverse" =>
    \A i \in 1..Len(result.yielded) :
      LET node == result.yielded[i].node
          traversalPath == result.yielded[i].traversalPath
      IN /\ Len(traversalPath) >= 1
         /\ traversalPath[1] = node
         /\ traversalPath[Len(traversalPath)] = result.this
         /\ \A k \in 1..(Len(traversalPath) - 1) :
              traversalPath[k] \in Edges(CurrentGraph, traversalPath[k + 1], result.expansion)
         /\ Len(traversalPath) - 1
              = Distance(CurrentGraph, result.this, node, result.expansion)

\* A traversal has yielded a node two edges from the start although a chain
\* of three edges leads to it as well, through a node outside the path.
C12_Witness ==
  /\ result.op = "traverse"
  /\ \E i \in 1..Len(result.yielded) :
       LET traversalPath == result.yielded[i].traversalPath
       IN /\ Len(traversalPath) = 3
          /\ \E m \in Nodes \ Range(traversalPath) :
               /\ m \in Edges(CurrentGraph, traversalPath[2], result.expansion)
               /\ traversalPath[1] \in Edges(CurrentGraph, m, result.expansion)

-----------------------------------------------------------------------------
(* Properties of the edge operations, one call at a time *)

\* C13. After N.removeAllDependencies(): N has zero dependencies, N appears
\* in no dependents list, and every edge whose dependent end is not N (the
\* edges from N to its own dependents included) is as it was.
C13_RemoveAllDependencies ==
  [][result'.op = "removeAllDependencies" =>
       LET N == result'.this
       IN /\ dependencies'[N] = <<>>
          /\ \A m \in Nodes : ~Includes(dependents'[m], N)
          /\ \A m \in Nodes \ {N} : dependencies'[m] = dependencies[m]
          /\ \A m \in Nodes :
               dependents'[m] = SelectSeq(dependents[m], LAMBDA x : x # N)
          /\ dependents'[N] = dependents[N]]_vars

\* removeAllDependencies has removed two dependencies of a node that has a
\* dependent of its own, which is still there.
C13_Witness ==
  /\ result.op = "removeAllDependencies"
  /\ result.removed = 2
  /\ dependencies[result.this] = <<>>
  /\ Len(dependents[result.this]) = 1

\* Y.addDependency(X) has put X at the end of Y's dependencies and Y at the
\* end of X's dependents and has changed nothing else.
Appended(Y, X) ==
  /\ dependencies' = [dependencies EXCEPT ![Y] = Append(@, X)]
  /\ dependents' = [dependents EXCEPT ![X] = Append(@, Y)]
  /\ isMainDocument' = isMainDocument

\* Y.removeDependency(X) has taken X out of Y's dependencies and Y out of
\* X's dependents and has changed nothing else, the order of the rest
\* included.
Removed(Y, X) ==
  /\ dependencies' = [dependencies EXCEPT ![Y] = SelectSeq(@, LAMBDA n : n # X)]
  /\ dependents' = [dependents EXCEPT ![X] = SelectSeq(@, LAMBDA n : n # Y)]
  /\ isMainDocument' = isMainDocument

\* C19. A successful Y.addDependency(X) or Y.removeDependency(X), or the
\* same through addDependent and removeDependent, changes only Y's
\* dependencies and X's dependents; the new edge goes to the end of both
\* lists and nothing is reordered.
C19_OnlyTheTwoLists ==
  [][/\ result'.branch = "push" =>
          \A Y \in Nodes, X \in Nodes :
            (AddDependency(Y, X) \/ AddDependent(X, Y)) => Appended(Y, X)
     /\ result'.branch = "splice" =>
          \A Y \in Nodes, X \in Nodes :
            (RemoveDependency(Y, X) \/ RemoveDependent(X, Y)) => Removed(Y, X)]_vars

\* An addDependency has just added an edge to a graph in which a node has
\* two dependencies and a node has two dependents.
C19_Witness ==
  /\ result.op = "addDependency"
  /\ result.branch = "push"
  /\ \E Y \in Nodes : Len(dependencies[Y]) = 2
  /\ \E X \in Nodes : Len(dependents[X]) = 2

-----------------------------------------------------------------------------
(* Properties of cloning *)

\* The callers' nodes are on the heap h as the callers left them.
OriginalsUntouched(h) ==
  \A n \in Nodes :
    /\ h.g.dependencies[n] = dependencies[n]
    /\ h.g.dependents[n] = dependents[n]
    /\ h.flags[n] = isMainDocument[n]

\* C14. cloneWithoutRelationships() returns a new node with the id and the
\* isMainDocument flag of the original and with zero dependencies and zero
\* dependents; the original's edges and flag are unchanged.
C14_CloneWithoutRelationships ==
  result.op = "cloneWithoutRelationships" =>
    LET node == result.ret
    IN /\ node \in Objects \ Nodes
       /\ id(node) = id(result.this)
       /\ result.heap.flags[node] = isMainDocument[result.this]
       /\ result.heap.g.dependencies[node] = <<>>
       /\ result.heap.g.dependents[node] = <<>>
       /\ OriginalsUntouched(result.heap)

\* A main document that has a dependency and a dependent has been cloned.
C14_Witness ==
  /\ result.op = "cloneWithoutRelationships"
  /\ isMainDocument[result.this]
  /\ result.heap.flags[result.ret]
  /\ Len(dependencies[result.this]) >= 1
  /\ Len(dependents[result.this]) >= 1

\* C18. cloneWithRelationships, whether it returns or fails, leaves the
\* dependencies, dependents and isMainDocument of every original node
\* unchanged, and the clone graph it returns shares no node with the
\* original: no clone is in an original's lists and no original in a clone's.
C18_OriginalsUntouched ==
  Cloned =>
    /\ OriginalsUntouched(result.heap)
    /\ result.outcome = "return" =>
         /\ result.node \in Objects \ Nodes
         /\ \A n \in Nodes :
              Range(result.heap.g.dependencies[n]) \cup Range(result.heap.g.dependents[n])
                \subseteq Nodes
         /\ \A o \in Objects \ Nodes :
              Range(result.heap.g.dependencies[o]) \cup Range(result.heap.g.dependents[o])
                \subseteq Objects \ Nodes

\* A clone has returned a graph of two edges or more that holds the clone of
\* the main document, flagged as its original is.
C18_Witness ==
  /\ Cloned
  /\ result.outcome = "return"
  /\ EdgeCount(result.g) >= 2
  /\ \E n \in result.clones :
       /\ isMainDocument[n]
       /\ result.heap.flags[get(result.heap, n)]
       /\ result.heap.g.dependencies[get(result.heap, n)] # <<>>

\* cloneWithRelationships has thrown after cloning nodes.
ThrownWithClones ==
  Cloned /\ result.outcome = "throw" /\ result.clones # {}
    /\ \E n \in Nodes : isMainDocument[n]

\* C15. On every acyclic graph in which exactly one node has zero
\* dependencies, with every predicate or none, cloneWithRelationships on any
\* node never raises 'Dependency somehow not cloned'.
C15_DependenciesCloned ==
  (Cloned /\ Acyclic(CurrentGraph) /\ Cardinality(Roots(CurrentGraph, Nodes)) = 1) =>
    result.error # CloneConsistencyError

\* A clone with a predicate has returned on an acyclic graph with a single
\* root, having cloned a node with two dependencies and its ancestors, and
\* not every node.
C15_Witness ==
  /\ Cloned
  /\ result.outcome = "return"
  /\ result.predicate.defined
  /\ Acyclic(CurrentGraph)
  /\ Cardinality(Roots(CurrentGraph, Nodes)) = 1
  /\ Cardinality(result.clones) = 3
  /\ \E n \in result.predicate.accepts : Len(dependencies[n]) = 2

-----------------------------------------------------------------------------
(* Properties of getRootNode and hasCycle as calls *)

\* The node k first-listed dependencies up from n, or 0 when the chain from
\* n ends before that
RECURSIVE FirstDependencyChain(_, _, _)
FirstDependencyChain(g, n, k) ==
  IF k = 0
    THEN n
    ELSE IF g.dependencies[n] = <<>>
      THEN 0
      ELSE FirstDependencyChain(g, g.dependencies[n][1], k - 1)

\* C16. On every acyclic graph getRootNode() terminates and returns a node
\* with zero dependencies, reached by repeatedly following the first-listed
\* dependency.
C16_RootByFirstDependency ==
  (result.op = "getRootNode" /\ Acyclic(CurrentGraph)) =>
    /\ ~result.diverges
    /\ result.ret \in Nodes
    /\ dependencies[result.ret] = <<>>
    /\ \E k \in 0..NumNodes :
         FirstDependencyChain(CurrentGraph, result.this, k) = result.ret

\* getRootNode has returned two first-listed dependencies up from a node
\* whose last-listed dependency is itself a root.
C16_Witness ==
  /\ result.op = "getRootNode"
  /\ Acyclic(CurrentGraph)
  /\ Len(dependencies[result.this]) = 2
  /\ dependencies[dependencies[result.this][2]] = <<>>
  /\ FirstDependencyChain(CurrentGraph, result.this, 2) = result.ret
  /\ dependencies[result.ret] = <<>>

\* C17. hasCycle(n, d) terminates with a boolean on every finite graph,
\* cyclic ones included, for every start node and each direction
\* (dependents, dependencies, both): no node is pushed onto currentPath
\* twice in a search, and each search under way comes to its return, the
\* stack toVisit empty or a cycle found.
C17_SearchTerminates ==
  /\ [](result.op = "hasCycle" =>
          /\ \A i, j \in 1..Len(result.pushed) :
               result.pushed[i] = result.pushed[j] => i = j
          /\ result.ret \in BOOLEAN
          /\ Returned => (result.ret \/ result.toVisit = <<>>))
  /\ (Searching ~> Returned)

\* A search of both directions has returned false on a graph that has a
\* cycle elsewhere, after pushing three nodes in its second search.
C17_Witness ==
  /\ Returned
  /\ result.direction = "both"
  /\ result.searching = "dependencies"
  /\ ~result.ret
  /\ Len(result.pushed) = 3
  /\ ~Acyclic(CurrentGraph)

\* A search that has returned agrees with hasCycle computed in one go.
SearchAgreesWithHasCycle ==
  Returned => result.ret = hasCycle(CurrentGraph, result.node, result.direction)

=============================================================================
